---- MODULE Spec2Model ----
(***************************************************************************)
(* Model of jotdown's tree engine (src/src/tree.rs: Builder, Tree cursor)  *)
(* and inline resolver (src/src/inline.rs: Parser).                        *)
(*                                                                         *)
(* Five specifications share the module:                                   *)
(*   SpecTree   - a Builder is driven by enter/atom/inline/exit/finish,    *)
(*                then the finished Tree is walked with next(),            *)
(*                take_branch(), take_inlines(), count_children() and      *)
(*                linear_containers().                                     *)
(*   SpecInline - a fresh Parser is given a token sequence and the         *)
(*                consumer calls next() until it returns None.             *)
(*   SpecMath   - SpecInline on inputs of dollar and backtick runs.        *)
(*   SpecDrain  - Parser::new, parse(src) and a consumer that keeps        *)
(*                calling next(), with weak fairness of its steps.         *)
(*   SpecReuse  - one Parser is given two inputs, drained after each.      *)
(***************************************************************************)
EXTENDS Integers, Sequences, FiniteSets, TLC

VARIABLES
    builder,    \* tree.rs Builder { nodes, branch, head, depth }
    calls,      \* the Builder calls made so far, in order (the caller's input)
    tree,       \* tree.rs Tree { nodes, branch, head }: the cursor finish() returned
    taken,      \* the Tree returned by take_branch(), NoTree before the call
    split,      \* the cursor as it was when take_branch() was called (and how many
                \* events it had yielded), NoSplit before
    yielded,    \* events returned by tree.next(), in order
    tyielded,   \* events returned by taken.next(), in order
    tphase,     \* "build" | "walk" | "off"
    tdone,      \* <<tree.next() returned None, taken.next() returned None>>
    obs,        \* the call of take_inlines / count_children / linear_containers
                \* just made on tree: the cursor before it and what it returned
    panicked,   \* a panic!/assert!/unreachable! was hit
    src,        \* the token sequence the lexer yields for the parsed input
    prior,      \* the inputs given to parse() on this Parser before src
    parser,     \* inline.rs Parser { openers, events, span, lexer }
    pc,         \* position of the consumer of the Parser: "new" (before parse) |
                \* "next" (calling next()) | "done" (None returned) | "off"
    delivered,  \* events returned by Parser::next(), in order
    last        \* what the last step of the parser did (token eaten, tokens consumed)

vars == <<builder, calls, tree, taken, split, yielded, tyielded, tphase, tdone, obs,
          panicked, src, prior, parser, pc, delivered, last>>

treeVars == <<builder, calls, tree, taken, split, yielded, tyielded, tphase, tdone, obs>>
inlineVars == <<src, prior, parser, pc, delivered, last>>

(***************************************************************************)
(* Bounds of the model.                                                    *)
(***************************************************************************)
MaxNodes == 4
MaxTokens == 5

Last(s) == s[Len(s)]
Front(s) == SubSeq(s, 1, Len(s) - 1)

(***************************************************************************)
(* tree.rs: the arena.  NodeIndex wraps index + 1 (NonZeroUsize), so a     *)
(* NodeIndex value is directly a 1-based position in nodes and None is     *)
(* written 0.                                                              *)
(***************************************************************************)
None == 0

NodeIndex_root == 1

Containers == {"c1", "c2"}
Atoms == {"a1"}

\* struct Node { span, kind, next }; a Container's payload is (tag, child)
Node(span, kind, tag) ==
    [span |-> span, kind |-> kind, tag |-> tag, child |-> None, next |-> None]

\* struct Event { kind, span } of tree.rs
TEvent(kind, tag, span) == [kind |-> kind, tag |-> tag, span |-> span]

NoTree == [nodes |-> <<>>, branch |-> <<>>, head |-> -1]

NoSplit == [t |-> NoTree, at |-> 0]

\* Builder::new
Builder_new ==
    [nodes |-> <<Node(<<0, 0>>, "Root", "-")>>,
     branch |-> <<>>,
     head |-> NodeIndex_root,
     depth |-> 0,
     panic |-> FALSE]

\* Fault variant of add_node: with no head, the container on top of the
\* branch stack is linked but left on the stack (last() instead of pop()).
AddNode_keepsBlock(b, node) ==
    LET ni == Len(b.nodes) + 1
        nodes1 == Append(b.nodes, node)
    IN  IF b.head # None
        THEN LET head == nodes1[b.head]
             IN  IF head.kind \in {"Root", "Inline", "Atom"}
                 THEN IF head.next # None
                      THEN [b EXCEPT !.panic = TRUE]
                      ELSE [b EXCEPT !.nodes = [nodes1 EXCEPT ![b.head].next = ni],
                                     !.head = ni]
                 ELSE IF head.child # None
                      THEN [b EXCEPT !.panic = TRUE]
                      ELSE [b EXCEPT !.nodes = [nodes1 EXCEPT ![b.head].child = ni],
                                     !.branch = Append(b.branch, b.head),
                                     !.head = ni]
        ELSE IF b.branch # <<>>
             THEN LET block == Last(b.branch)
                  IN  IF nodes1[block].kind # "Container"
                      THEN [b EXCEPT !.panic = TRUE]
                      ELSE [b EXCEPT !.nodes = [nodes1 EXCEPT ![block].next = ni],
                                     !.head = ni]
             ELSE [b EXCEPT !.panic = TRUE]

\* Builder::add_node.  A failed assert!/panic! leaves panic set.
AddNode(b, node) ==
    LET ni == Len(b.nodes) + 1
        nodes1 == Append(b.nodes, node)
    IN  IF b.head # None
        THEN LET head == nodes1[b.head]
             IN  IF head.kind \in {"Root", "Inline", "Atom"}
                 THEN IF head.next # None
                      THEN [b EXCEPT !.panic = TRUE]
                      ELSE [b EXCEPT !.nodes = [nodes1 EXCEPT ![b.head].next = ni],
                                     !.head = ni]
                 ELSE IF head.child # None
                      THEN [b EXCEPT !.panic = TRUE]
                      ELSE [b EXCEPT !.nodes = [nodes1 EXCEPT ![b.head].child = ni],
                                     !.branch = Append(b.branch, b.head),
                                     !.head = ni]
        ELSE IF b.branch # <<>>
             THEN LET block == Last(b.branch)
                  IN  IF nodes1[block].kind # "Container"
                      THEN [b EXCEPT !.panic = TRUE]
                      ELSE [b EXCEPT !.nodes = [nodes1 EXCEPT ![block].next = ni],
                                     !.branch = Front(b.branch),
                                     !.head = ni]
             ELSE [b EXCEPT !.panic = TRUE]

\* Builder::atom
BuilderAtom(b, a, span) == AddNode(b, Node(span, "Atom", a))

\* Builder::inline
BuilderInline(b, span) == AddNode(b, Node(span, "Inline", "-"))

\* Builder::enter
BuilderEnter(b, c, span) ==
    AddNode([b EXCEPT !.depth = b.depth + 1], Node(span, "Container", c))

\* Builder::exit, after `self.depth -= 1`
BuilderExit(b) ==
    IF b.head # None
    THEN [b EXCEPT !.head = None]
    ELSE IF b.branch = <<>>
         THEN [b EXCEPT !.panic = TRUE]
         ELSE [b EXCEPT !.branch = Front(b.branch)]

\* Builder::finish, after `assert_eq!(self.depth, 0)`
BuilderFinish(b) ==
    [nodes |-> b.nodes, branch |-> <<>>, head |-> b.nodes[NodeIndex_root].next]

(***************************************************************************)
(* tree.rs: the cursor.                                                    *)
(***************************************************************************)
\* Tree::next: the cursor after the call, the event returned (NoEvent for
\* None) and whether unreachable!/panic! was hit.
NoEvent == [kind |-> "None", tag |-> "-", span |-> <<0, 0>>]

\* Fault variant of next(): at the end of a level the oldest container on
\* the branch stack is exited instead of the innermost one.
TreeNext_oldestFirst(t) ==
    IF t.head # None
    THEN LET n == t.nodes[t.head]
         IN  CASE n.kind = "Root" ->
                    [t |-> t, ev |-> NoEvent, panic |-> TRUE]
               [] n.kind = "Container" ->
                    [t |-> [t EXCEPT !.branch = Append(t.branch, t.head),
                                     !.head = n.child],
                     ev |-> TEvent("Enter", n.tag, n.span), panic |-> FALSE]
               [] n.kind = "Atom" ->
                    [t |-> [t EXCEPT !.head = n.next],
                     ev |-> TEvent("Atom", n.tag, n.span), panic |-> FALSE]
               [] n.kind = "Inline" ->
                    [t |-> [t EXCEPT !.head = n.next],
                     ev |-> TEvent("Inline", "-", n.span), panic |-> FALSE]
    ELSE IF t.branch # <<>>
         THEN LET block == t.nodes[Head(t.branch)]
              IN  [t |-> [t EXCEPT !.branch = Tail(t.branch),
                                   !.head = block.next],
                   ev |-> TEvent("Exit", block.tag, block.span),
                   panic |-> FALSE]
         ELSE [t |-> t, ev |-> NoEvent, panic |-> FALSE]

TreeNext(t) ==
    IF t.head # None
    THEN LET n == t.nodes[t.head]
         IN  CASE n.kind = "Root" ->
                    [t |-> t, ev |-> NoEvent, panic |-> TRUE]
               [] n.kind = "Container" ->
                    [t |-> [t EXCEPT !.branch = Append(t.branch, t.head),
                                     !.head = n.child],
                     ev |-> TEvent("Enter", n.tag, n.span), panic |-> FALSE]
               [] n.kind = "Atom" ->
                    [t |-> [t EXCEPT !.head = n.next],
                     ev |-> TEvent("Atom", n.tag, n.span), panic |-> FALSE]
               [] n.kind = "Inline" ->
                    [t |-> [t EXCEPT !.head = n.next],
                     ev |-> TEvent("Inline", "-", n.span), panic |-> FALSE]
    ELSE IF t.branch # <<>>
         THEN LET block == t.nodes[Last(t.branch)]
              IN  IF block.kind = "Container"
                  THEN [t |-> [t EXCEPT !.branch = Front(t.branch),
                                        !.head = block.next],
                        ev |-> TEvent("Exit", block.tag, block.span),
                        panic |-> FALSE]
                  ELSE [t |-> t, ev |-> NoEvent, panic |-> TRUE]
         ELSE [t |-> t, ev |-> NoEvent, panic |-> FALSE]

\* Fault variant of take_branch: the enclosing container is left on the
\* branch stack, so the original cursor still yields its Exit.
TakeBranchOf_keepsBranch(t) ==
    <<[t EXCEPT !.head = None],
      [nodes |-> t.nodes, branch |-> <<>>, head |-> t.head]>>

\* Fault variant of take_branch: the original cursor is left where it was.
TakeBranchOf_noSkip(t) ==
    <<t, [nodes |-> t.nodes, branch |-> <<>>, head |-> t.head]>>

\* Tree::take_branch: <<self after the call, the Tree returned>>
TakeBranchOf(t) ==
    LET popped == IF t.branch = <<>> THEN None ELSE Last(t.branch)
        branch1 == IF t.branch = <<>> THEN <<>> ELSE Front(t.branch)
        head1 == IF popped = None THEN None ELSE t.nodes[popped].next
    IN  <<[t EXCEPT !.head = head1, !.branch = branch1],
          [nodes |-> t.nodes, branch |-> <<>>, head |-> t.head]>>

\* Tree::with_head
WithHead(t, head) == [nodes |-> t.nodes, branch |-> <<>>, head |-> head]

\* Fault variant of count_children: the children of containers are counted
\* as well.
RECURSIVE CountFrom_descends(_, _)
CountFrom_descends(nodes, head) ==
    IF head = None THEN 0
    ELSE 1 + CountFrom_descends(nodes, nodes[head].child)
           + CountFrom_descends(nodes, nodes[head].next)

\* Tree::count_children
RECURSIVE CountFrom(_, _)
CountFrom(nodes, head) ==
    IF head = None THEN 0 ELSE 1 + CountFrom(nodes, nodes[head].next)

CountChildren(t) == CountFrom(t.nodes, t.head)

\* Fault variant of linear_containers: the cursor paired with a container
\* starts at the container itself instead of at its first child.
RECURSIVE LinearContainersFrom_atContainer(_, _)
LinearContainersFrom_atContainer(t, head) ==
    IF head = None THEN <<>>
    ELSE LET n == t.nodes[head]
         IN  IF n.kind = "Container"
             THEN <<(<<n.tag, WithHead(t, head)>>)>>
                      \o LinearContainersFrom_atContainer(t, n.next)
             ELSE LinearContainersFrom_atContainer(t, n.next)

\* Tree::linear_containers, collected: the sequence of <<c, Tree>> yielded
RECURSIVE LinearContainersFrom(_, _)
LinearContainersFrom(t, head) ==
    IF head = None THEN <<>>
    ELSE LET n == t.nodes[head]
         IN  IF n.kind = "Container"
             THEN <<(<<n.tag, WithHead(t, n.child)>>)>>
                      \o LinearContainersFrom(t, n.next)
             ELSE LinearContainersFrom(t, n.next)

LinearContainers(t) == LinearContainersFrom(t, t.head)

\* Fault variant of the iterator: it ends at the first node that is not
\* Inline instead of failing the assert.
RECURSIVE InlineSpans_stopsAtRun(_, _, _)
InlineSpans_stopsAtRun(nodes, head, pulls) ==
    IF pulls = 0 \/ head = None THEN [spans |-> <<>>, panic |-> FALSE]
    ELSE IF nodes[head].kind # "Inline" THEN [spans |-> <<>>, panic |-> FALSE]
    ELSE LET r == InlineSpans_stopsAtRun(nodes, nodes[head].next, pulls - 1)
         IN  [spans |-> <<nodes[head].span>> \o r.spans, panic |-> r.panic]

\* the iterator take_inlines returns, pulled `pulls` times (or to its end,
\* if that comes first): the spans yielded and whether
\* `assert!(matches!(n.kind, NodeKind::Inline))` failed
RECURSIVE InlineSpans(_, _, _)
InlineSpans(nodes, head, pulls) ==
    IF pulls = 0 \/ head = None THEN [spans |-> <<>>, panic |-> FALSE]
    ELSE IF nodes[head].kind # "Inline" THEN [spans |-> <<>>, panic |-> TRUE]
    ELSE LET r == InlineSpans(nodes, nodes[head].next, pulls - 1)
         IN  [spans |-> <<nodes[head].span>> \o r.spans, panic |-> r.panic]

\* Fault variant of take_inlines: the kind of the head is asserted at the
\* call, before the iterator is pulled.
TakeInlinesOf_eager(t, pulls) ==
    LET r == InlineSpans(t.nodes, t.head, pulls)
    IN  [t |-> [t EXCEPT !.head = None],
         spans |-> r.spans,
         panic |-> r.panic \/ (t.head # None /\ t.nodes[t.head].kind # "Inline")]

\* Tree::take_inlines and the pulls made on the iterator it returns:
\* self after `self.head.take()`, the spans yielded, and the failed assert
TakeInlinesOf(t, pulls) ==
    LET r == InlineSpans(t.nodes, t.head, pulls)
    IN  [t |-> [t EXCEPT !.head = None], spans |-> r.spans, panic |-> r.panic]

\* no call observed; inl records that take_inlines has been called before
NoObs == [op |-> "none", pre |-> NoTree, spans |-> <<>>, pulls |-> 0, count |-> 0,
          conts |-> <<>>, inl |-> FALSE]

(***************************************************************************)
(* SpecTree: the actions.                                                  *)
(***************************************************************************)
\* the span the block parser gives the next node: nodes are laid out one
\* after the other in the source
NextSpans(b) == {<<Len(b.nodes) - 1, Len(b.nodes)>>}

Building == tphase = "build" /\ ~panicked

CanAdd == Building /\ Len(builder.nodes) <= MaxNodes

AfterBuild(b, call) ==
    /\ builder' = [b EXCEPT !.panic = FALSE]
    /\ panicked' = b.panic
    /\ calls' = Append(calls, call)
    /\ UNCHANGED <<tree, taken, split, yielded, tyielded, tphase, tdone, obs>>
    /\ UNCHANGED inlineVars

Enter ==
    /\ CanAdd
    /\ \E c \in Containers, span \in NextSpans(builder) :
          AfterBuild(BuilderEnter(builder, c, span),
                     [op |-> "enter", tag |-> c, span |-> span])

Atom ==
    /\ CanAdd
    /\ \E a \in Atoms, span \in NextSpans(builder) :
          AfterBuild(BuilderAtom(builder, a, span),
                     [op |-> "atom", tag |-> a, span |-> span])

Inline ==
    /\ CanAdd
    /\ \E span \in NextSpans(builder) :
          AfterBuild(BuilderInline(builder, span),
                     [op |-> "inline", tag |-> "-", span |-> span])

\* Builder::exit where `self.depth -= 1` does not overflow.  depth is a
\* usize; it is kept as the representative nearest 0 of its residue modulo
\* 2^64, so usize::MAX is written -1 and only depth = 0 overflows.
Exit ==
    /\ Building
    /\ builder.depth # 0
    /\ AfterBuild(BuilderExit([builder EXCEPT !.depth = builder.depth - 1]),
                  [op |-> "exit", tag |-> "-", span |-> <<0, 0>>])

\* Builder::exit with depth = 0: `self.depth -= 1` panics in a build with
\* overflow checks and wraps to usize::MAX in a build without them
ExitUnbalanced ==
    /\ Building
    /\ builder.depth = 0
    /\ \E overflow_checks \in BOOLEAN :
          AfterBuild(IF overflow_checks
                     THEN [builder EXCEPT !.panic = TRUE]
                     ELSE BuilderExit([builder EXCEPT !.depth = builder.depth - 1]),
                     [op |-> "exit", tag |-> "-", span |-> <<0, 0>>])

FinishCall == [op |-> "finish", tag |-> "-", span |-> <<0, 0>>]

\* Builder::finish with depth = 0
Finish ==
    /\ Building
    /\ builder.depth = 0
    /\ tree' = BuilderFinish(builder)
    /\ tphase' = "walk"
    /\ calls' = Append(calls, FinishCall)
    /\ UNCHANGED <<builder, taken, split, yielded, tyielded, tdone, obs, panicked>>
    /\ UNCHANGED inlineVars

\* Builder::finish with depth # 0: `assert_eq!(self.depth, 0)` fails
FinishOpen ==
    /\ Building
    /\ builder.depth # 0
    /\ panicked' = TRUE
    /\ calls' = Append(calls, FinishCall)
    /\ UNCHANGED <<builder, tree, taken, split, yielded, tyielded, tphase, tdone, obs>>
    /\ UNCHANGED inlineVars

\* any other call on the cursor: the last observation is over
Forget(o) == [NoObs EXCEPT !.inl = o.inl]

Walking == tphase = "walk" /\ ~panicked

\* tree.next()
Next_tree ==
    /\ Walking
    /\ ~tdone[1]
    /\ LET r == TreeNext(tree)
       IN  /\ tree' = r.t
           /\ panicked' = r.panic
           /\ yielded' = IF r.ev = NoEvent THEN yielded ELSE Append(yielded, r.ev)
           /\ tdone' = [tdone EXCEPT ![1] = (r.ev = NoEvent /\ ~r.panic)]
    /\ obs' = Forget(obs)
    /\ UNCHANGED <<builder, calls, taken, split, tyielded, tphase>>
    /\ UNCHANGED inlineVars

\* tree.take_branch()
TakeBranch ==
    /\ Walking
    /\ taken = NoTree
    /\ ~obs.inl
    /\ ~tdone[1]
    /\ LET r == TakeBranchOf(tree)
       IN  /\ tree' = r[1]
           /\ taken' = r[2]
           /\ split' = [t |-> tree, at |-> Len(yielded)]
    /\ obs' = Forget(obs)
    /\ UNCHANGED <<builder, calls, yielded, tyielded, tphase, tdone, panicked>>
    /\ UNCHANGED inlineVars

\* next() on the Tree take_branch() returned
Next_taken ==
    /\ Walking
    /\ taken # NoTree
    /\ ~tdone[2]
    /\ LET r == TreeNext(taken)
       IN  /\ taken' = r.t
           /\ panicked' = r.panic
           /\ tyielded' = IF r.ev = NoEvent THEN tyielded ELSE Append(tyielded, r.ev)
           /\ tdone' = [tdone EXCEPT ![2] = (r.ev = NoEvent /\ ~r.panic)]
    /\ obs' = Forget(obs)
    /\ UNCHANGED <<builder, calls, tree, split, yielded, tphase>>
    /\ UNCHANGED inlineVars

\* tree.take_inlines(), and the iterator it returns pulled `pulls` times
\* before it is dropped (MaxNodes + 1 pulls reach its end, as collect()
\* does).  This call and the two below are made on the cursor finish()
\* returned, before any take_branch().
TakeInlines ==
    /\ Walking
    /\ ~tdone[1]
    /\ taken = NoTree
    /\ \E pulls \in 0..(MaxNodes + 1) :
          LET r == TakeInlinesOf(tree, pulls)
          IN  /\ tree' = r.t
              /\ panicked' = r.panic
              /\ obs' = [NoObs EXCEPT !.op = "take_inlines", !.pre = tree,
                                      !.spans = r.spans, !.pulls = pulls,
                                      !.inl = TRUE]
    /\ UNCHANGED <<builder, calls, taken, split, yielded, tyielded, tphase, tdone>>
    /\ UNCHANGED inlineVars

\* tree.count_children()
CountChildrenCall ==
    /\ Walking
    /\ ~tdone[1]
    /\ taken = NoTree
    /\ obs.op # "count_children"
    /\ obs' = [Forget(obs) EXCEPT !.op = "count_children", !.pre = tree,
                                  !.count = CountChildren(tree)]
    /\ UNCHANGED <<builder, calls, tree, taken, split, yielded, tyielded, tphase,
                   tdone, panicked>>
    /\ UNCHANGED inlineVars

\* tree.linear_containers().collect()
LinearContainersCall ==
    /\ Walking
    /\ ~tdone[1]
    /\ taken = NoTree
    /\ obs.op # "linear_containers"
    /\ obs' = [Forget(obs) EXCEPT !.op = "linear_containers", !.pre = tree,
                                  !.conts = LinearContainers(tree)]
    /\ UNCHANGED <<builder, calls, tree, taken, split, yielded, tyielded, tphase,
                   tdone, panicked>>
    /\ UNCHANGED inlineVars


(***************************************************************************)
(* inline.rs: tokens, events and the Parser.                               *)
(* A lex::Token is {kind, len}; kind is written as a kind name and its     *)
(* argument ("-" when the kind has none).  A Span is <<start, end>>.        *)
(***************************************************************************)
Token(kind, arg, len) == [kind |-> kind, arg |-> arg, len |-> len]

NoToken == Token("None", "-", 0)

\* the tokens inputs are made of
Alphabet ==
    { Token("Text", "-", 3),
      Token("Escape", "-", 1),
      Token("Sym", "Quote2", 1),
      Token("Sym", "Underscore", 1),
      Token("Open", "BraceUnderscore", 2),
      Token("Close", "BraceUnderscore", 2),
      Token("Seq", "Backtick", 1),
      Token("Seq", "Backtick", 2) }

\* Span::extend, Span::empty_at
Span_extend(span, n) == <<span[1], span[2] + n>>
Span_empty_at(pos) == <<pos, pos>>

\* struct Event { kind, span } of inline.rs; state is the OpenerState of an Enter
IEvent(kind, tag, state, span) ==
    [kind |-> kind, tag |-> tag, state |-> state, span |-> span]

NoIEvent == IEvent("None", "-", "-", <<0, 0>>)

\* Parser::new followed by Parser::parse(src)
Parser_new(tokens) ==
    [openers |-> <<>>, events |-> <<>>, span |-> <<0, 0>>, lexer |-> tokens,
     panic |-> FALSE]

\* Parser::eat: <<parser after, the token or NoToken>>
Eat(p) ==
    IF p.lexer = <<>>
    THEN <<p, NoToken>>
    ELSE <<[p EXCEPT !.span = Span_extend(p.span, Head(p.lexer).len),
                     !.lexer = Tail(p.lexer)],
           Head(p.lexer)>>

\* Parser::peek
Peek(p) == IF p.lexer = <<>> THEN NoToken ELSE Head(p.lexer)

\* Fault variant of reset_span: the span keeps its start.
ResetSpan_keepsStart(p) == p

\* Parser::reset_span
ResetSpan(p) == [p EXCEPT !.span = Span_empty_at(p.span[2])]

\* Parser::parse_atom: the event, NoIEvent for None
ParseAtom(p, first) ==
    LET atom == CASE first.kind = "Escape" -> "Escape"
                  [] first.kind = "Nbsp" -> "Nbsp"
                  [] first.kind = "Sym" /\ first.arg = "Lt" -> "Lt"
                  [] first.kind = "Sym" /\ first.arg = "Gt" -> "Gt"
                  [] first.kind = "Sym" /\ first.arg = "Quote2" -> "Quote"
                  [] OTHER -> "-"
    IN  IF atom = "-" THEN NoIEvent ELSE IEvent("Atom", atom, "-", p.span)

IsBacktick(tok) == tok.kind = "Seq" /\ tok.arg = "Backtick"

\* Fault variant of the scan: any backtick run closes the span.
RECURSIVE VerbatimScan_anyRun(_, _, _)
VerbatimScan_anyRun(p, span, opener_len) ==
    LET r == Eat(p)
    IN  IF r[2] = NoToken THEN <<r[1], span>>
        ELSE IF IsBacktick(r[2]) THEN <<r[1], span>>
        ELSE VerbatimScan_anyRun(r[1], Span_extend(span, r[2].len), opener_len)

\* the `while let Some(tok) = self.eat()` loop of parse_verbatim:
\* <<parser after, span of the content>>
RECURSIVE VerbatimScan(_, _, _)
VerbatimScan(p, span, opener_len) ==
    LET r == Eat(p)
    IN  IF r[2] = NoToken THEN <<r[1], span>>
        ELSE IF IsBacktick(r[2]) /\ r[2].len = opener_len THEN <<r[1], span>>
        ELSE VerbatimScan(r[1], Span_extend(span, r[2].len), opener_len)

\* Fault variant of the match: the length of the dollar run is not looked at
\* before the lookahead.
VerbatimOpener_anyDollar(p, first) ==
    IF first.kind = "Seq" /\ first.arg = "Dollar"
    THEN IF IsBacktick(Peek(p))
         THEN <<IF first.len = 2 THEN "DisplayMath" ELSE "InlineMath",
                Peek(p).len, Eat(p)[1]>>
         ELSE <<"-", 0, p>>
    ELSE IF IsBacktick(first)
         THEN <<"Verbatim", first.len, p>>
         ELSE <<"-", 0, p>>

\* the first match of parse_verbatim: <<node kind, opener_len, parser after>>,
\* node kind "-" for None
VerbatimOpener(p, first) ==
    IF first.kind = "Seq" /\ first.arg = "Dollar"
    THEN IF first.len <= 2 /\ IsBacktick(Peek(p))
         THEN <<IF first.len = 2 THEN "DisplayMath" ELSE "InlineMath",
                Peek(p).len, Eat(p)[1]>>
         ELSE <<"-", 0, p>>
    ELSE IF IsBacktick(first)
         THEN <<"Verbatim", first.len, p>>
         ELSE <<"-", 0, p>>

\* Parser::parse_verbatim: [p |-> parser after, ev |-> the event, NoIEvent for None]
ParseVerbatim(p, first) ==
    LET o == VerbatimOpener(p, first)
    IN  IF o[1] = "-" THEN [p |-> p, ev |-> NoIEvent]
        ELSE LET s == VerbatimScan(o[3], Span_empty_at(o[3].span[2]), o[2])
             IN  [p |-> s[1], ev |-> IEvent("Node", o[1], "-", s[2])]

\* the first match of parse_container: <<container, direction>>, <<"-", "-">> for None
ContainerOf(first) ==
    CASE first.kind = "Sym" /\ first.arg = "Asterisk" -> <<"Strong", "Both">>
      [] first.kind = "Sym" /\ first.arg = "Underscore" -> <<"Emphasis", "Both">>
      [] first.kind = "Sym" /\ first.arg = "Caret" -> <<"Superscript", "Both">>
      [] first.kind = "Sym" /\ first.arg = "Tilde" -> <<"Subscript", "Both">>
      [] first.kind = "Sym" /\ first.arg = "Quote1" -> <<"SingleQuoted", "Both">>
      [] first.kind = "Sym" /\ first.arg = "Quote2" -> <<"DoubleQuoted", "Both">>
      [] first.kind = "Open" /\ first.arg = "Bracket" -> <<"Span", "Open">>
      [] first.kind = "Close" /\ first.arg = "Bracket" -> <<"Span", "Close">>
      [] first.kind = "Open" /\ first.arg = "BraceAsterisk" -> <<"Strong", "Open">>
      [] first.kind = "Close" /\ first.arg = "BraceAsterisk" -> <<"Strong", "Close">>
      [] first.kind = "Open" /\ first.arg = "BraceCaret" -> <<"Superscript", "Open">>
      [] first.kind = "Close" /\ first.arg = "BraceCaret" -> <<"Superscript", "Close">>
      [] first.kind = "Open" /\ first.arg = "BraceEqual" -> <<"Mark", "Open">>
      [] first.kind = "Close" /\ first.arg = "BraceEqual" -> <<"Mark", "Close">>
      [] first.kind = "Open" /\ first.arg = "BraceHyphen" -> <<"Delete", "Open">>
      [] first.kind = "Close" /\ first.arg = "BraceHyphen" -> <<"Delete", "Close">>
      [] first.kind = "Open" /\ first.arg = "BracePlus" -> <<"Insert", "Open">>
      [] first.kind = "Close" /\ first.arg = "BracePlus" -> <<"Insert", "Close">>
      [] first.kind = "Open" /\ first.arg = "BraceTilde" -> <<"Subscript", "Open">>
      [] first.kind = "Close" /\ first.arg = "BraceTilde" -> <<"Subscript", "Close">>
      [] first.kind = "Open" /\ first.arg = "BraceUnderscore" -> <<"Emphasis", "Open">>
      [] first.kind = "Close" /\ first.arg = "BraceUnderscore" -> <<"Emphasis", "Close">>
      [] OTHER -> <<"-", "-">>

\* Fault variant of rposition: position, the leftmost match.
RPosition_leftmost(openers, cont) ==
    LET hits == {i \in 1..Len(openers) : openers[i].c = cont}
    IN  IF hits = {} THEN 0 ELSE CHOOSE i \in hits : \A j \in hits : i <= j

\* openers.iter().rposition(|(c, _)| *c == cont): 1-based, 0 for None
RPosition(openers, cont) ==
    LET hits == {i \in 1..Len(openers) : openers[i].c = cont}
    IN  IF hits = {} THEN 0 ELSE CHOOSE i \in hits : \A j \in hits : j <= i

\* Fault variant of the closure: the matched Enter is not marked Closed.
ResolveContainer_noPatch(p, cont_new, dir) ==
    LET o == RPosition(p.openers, cont_new)
    IN  IF o # 0 /\ dir \in {"Close", "Both"}
        THEN [p |-> [p EXCEPT !.openers = SubSeq(p.openers, 1, o - 1)],
              ev |-> IEvent("Exit", cont_new, "-", p.span)]
        ELSE [p |-> [p EXCEPT !.openers =
                          Append(p.openers, [c |-> cont_new, e |-> Len(p.events)])],
              ev |-> IEvent("Enter", cont_new, "Unclosed", p.span)]

\* Fault variant of the closure: openers.remove(o) instead of drain(o..).
ResolveContainer_removeOne(p, cont_new, dir) ==
    LET o == RPosition(p.openers, cont_new)
    IN  IF o # 0 /\ dir \in {"Close", "Both"}
        THEN LET e == p.openers[o].e
             IN  IF e + 1 \in DOMAIN p.events /\ p.events[e + 1].kind = "Enter"
                 THEN [p |-> [p EXCEPT !.events[e + 1].state = "Closed",
                                       !.openers = SubSeq(p.openers, 1, o - 1)
                                           \o SubSeq(p.openers, o + 1, Len(p.openers))],
                       ev |-> IEvent("Exit", cont_new, "-", p.span)]
                 ELSE [p |-> [p EXCEPT !.panic = TRUE], ev |-> NoIEvent]
        ELSE [p |-> [p EXCEPT !.openers =
                          Append(p.openers, [c |-> cont_new, e |-> Len(p.events)])],
              ev |-> IEvent("Enter", cont_new, "Unclosed", p.span)]

\* the closure mapped over (cont_new, dir) in parse_container.  An opener is
\* (container, index into events); the index is 0-based as in the source.
ResolveContainer(p, cont_new, dir) ==
    LET o == RPosition(p.openers, cont_new)
    IN  IF o # 0 /\ dir \in {"Close", "Both"}
        THEN LET e == p.openers[o].e
             IN  IF e + 1 \in DOMAIN p.events /\ p.events[e + 1].kind = "Enter"
                 THEN [p |-> [p EXCEPT !.events[e + 1].state = "Closed",
                                       !.openers = SubSeq(p.openers, 1, o - 1)],
                       ev |-> IEvent("Exit", cont_new, "-", p.span)]
                 ELSE [p |-> [p EXCEPT !.panic = TRUE], ev |-> NoIEvent]
        ELSE [p |-> [p EXCEPT !.openers =
                          Append(p.openers, [c |-> cont_new, e |-> Len(p.events)])],
              ev |-> IEvent("Enter", cont_new, "Unclosed", p.span)]

\* Parser::parse_container: [p |-> parser after, ev |-> the event, NoIEvent for None]
ParseContainer(p, first) ==
    LET cd == ContainerOf(first)
    IN  IF cd[1] = "-" THEN [p |-> p, ev |-> NoIEvent]
        ELSE ResolveContainer(p, cd[1], cd[2])

\* Parser::node
NodeEvent(p, kind) == IEvent("Node", kind, "-", p.span)

\* Parser::parse_event once reset_span and eat have run and eat returned first:
\* parse_verbatim, or else parse_container, or else parse_atom, or else Str
ParseFirst(p, first) ==
    LET v == ParseVerbatim(p, first)
    IN  IF v.ev # NoIEvent THEN v
        ELSE LET c == ParseContainer(p, first)
             IN  IF c.ev # NoIEvent \/ c.p.panic THEN c
                 ELSE LET a == ParseAtom(p, first)
                      IN  IF a # NoIEvent THEN [p |-> p, ev |-> a]
                          ELSE [p |-> p, ev |-> NodeEvent(p, "Str")]

\* Parser::parse_event: [p |-> parser after, ev |-> the event, NoIEvent for None]
ParseEvent(p) ==
    LET r == Eat(ResetSpan(p))
    IN  IF r[2] = NoToken THEN [p |-> r[1], ev |-> NoIEvent]
        ELSE ParseFirst(r[1], r[2])

\* Fault variant of the loop condition: stop as soon as one event is queued.
KeepParsing_untilQueued(p) == p.events = <<>>

\* the condition of the while loop of Parser::next
KeepParsing(p) == p.events = <<>> \/ p.openers # <<>>

(***************************************************************************)
(* SpecInline: the actions.  The consumer calls next() until it returns    *)
(* None; a call runs the while loop (one Next_parse per iteration) and     *)
(* then pops the front of the queue (Next_return).                         *)
(***************************************************************************)
Parsing == pc = "next" /\ ~panicked

\* one iteration of the while loop in which parse_event returns Some(ev)
Next_parse ==
    /\ Parsing
    /\ KeepParsing(parser)
    /\ parser.lexer # <<>>
    /\ LET r == ParseEvent(parser)
       IN  /\ parser' = IF r.p.panic THEN [r.p EXCEPT !.panic = FALSE]
                        ELSE [r.p EXCEPT !.events = Append(r.p.events, r.ev)]
           /\ panicked' = r.p.panic
    /\ last' = [op |-> "parse", first |-> Head(parser.lexer), pre |-> parser]
    /\ UNCHANGED <<src, prior, pc, delivered>>
    /\ UNCHANGED treeVars

\* a variant of PopFront that holds the queue back while an opener is
\* outstanding
PopFront_unlessOpen(p) ==
    IF p.events = <<>> \/ p.openers # <<>>
    THEN [p |-> p, ev |-> NoIEvent]
    ELSE [p |-> [p EXCEPT !.events = Tail(p.events)], ev |-> Head(p.events)]

\* self.events.pop_front(): the oldest buffered event, or None
PopFront(p) ==
    IF p.events = <<>>
    THEN [p |-> p, ev |-> NoIEvent]
    ELSE [p |-> [p EXCEPT !.events = Tail(p.events)], ev |-> Head(p.events)]

\* the loop is left (its condition is false, or parse_event returned None)
\* and events.pop_front() is returned
Next_return ==
    /\ Parsing
    /\ ~KeepParsing(parser) \/ parser.lexer = <<>>
    /\ LET p1 == IF KeepParsing(parser) THEN ParseEvent(parser).p ELSE parser
           r  == PopFront(p1)
       IN  /\ parser' = r.p
           /\ pc' = IF r.ev = NoIEvent THEN "done" ELSE pc
           /\ delivered' = IF r.ev = NoIEvent THEN delivered
                                               ELSE Append(delivered, r.ev)
    /\ last' = [op |-> "return", first |-> NoToken, pre |-> parser]
    /\ UNCHANGED <<src, prior, panicked>>
    /\ UNCHANGED treeVars

TreeOff ==
    /\ builder = Builder_new
    /\ calls = <<>>
    /\ tree = NoTree
    /\ taken = NoTree
    /\ split = NoSplit
    /\ yielded = <<>>
    /\ tyielded = <<>>
    /\ tphase = "off"
    /\ tdone = <<FALSE, FALSE>>
    /\ obs = NoObs

Inputs == UNION {[1..n -> Alphabet] : n \in 0..MaxTokens}

InitInline ==
    /\ TreeOff
    /\ panicked = FALSE
    /\ src \in Inputs
    /\ prior = <<>>
    /\ parser = Parser_new(src)
    /\ pc = "next"
    /\ delivered = <<>>
    /\ last = [op |-> "none", first |-> NoToken, pre |-> Parser_new(src)]

NextInline ==
    \/ Next_parse
    \/ Next_return

SpecInline == InitInline /\ [][NextInline]_vars

(***************************************************************************)
(* SpecMath: the same Parser over inputs made of dollar runs, backtick     *)
(* runs, text and one container delimiter.                                 *)
(***************************************************************************)
MathAlphabet ==
    { Token("Text", "-", 3),
      Token("Sym", "Underscore", 1),
      Token("Seq", "Backtick", 1),
      Token("Seq", "Backtick", 2),
      Token("Seq", "Dollar", 1),
      Token("Seq", "Dollar", 2),
      Token("Seq", "Dollar", 3) }

MathInputs == UNION {[1..n -> MathAlphabet] : n \in 0..MaxTokens}

InitMath ==
    /\ TreeOff
    /\ panicked = FALSE
    /\ src \in MathInputs
    /\ prior = <<>>
    /\ parser = Parser_new(src)
    /\ pc = "next"
    /\ delivered = <<>>
    /\ last = [op |-> "none", first |-> NoToken, pre |-> Parser_new(src)]

SpecMath == InitMath /\ [][NextInline]_vars

(***************************************************************************)
(* SpecDrain: a consumer that calls next() until it returns None (as       *)
(* collect() and the for loops of the tests do), on inputs of two kinds of *)
(* container, text and an atom.  Every call to next() runs to its return,  *)
(* so the steps of the parser are taken as long as one is possible.        *)
(***************************************************************************)
DrainAlphabet ==
    { Token("Text", "-", 3),
      Token("Sym", "Underscore", 1),
      Token("Sym", "Asterisk", 1),
      Token("Escape", "-", 1) }

DrainInputs == UNION {[1..n -> DrainAlphabet] : n \in 0..MaxTokens}

\* Parser::new(): no source yet
InitDrain ==
    /\ TreeOff
    /\ panicked = FALSE
    /\ src = <<>>
    /\ prior = <<>>
    /\ parser = Parser_new(<<>>)
    /\ pc = "new"
    /\ delivered = <<>>
    /\ last = [op |-> "none", first |-> NoToken, pre |-> Parser_new(<<>>)]

\* parser.parse(src) on the new parser
Parse ==
    /\ pc = "new"
    /\ \E tokens \in DrainInputs :
          /\ src' = tokens
          /\ parser' = Parser_new(tokens)
    /\ pc' = "next"
    /\ UNCHANGED <<panicked, prior, delivered, last>>
    /\ UNCHANGED treeVars

NextDrain ==
    \/ Parse
    \/ Next_parse
    \/ Next_return

SpecDrain == InitDrain /\ [][NextDrain]_vars /\ WF_vars(NextDrain)


(***************************************************************************)
(* SpecReuse: one Parser is given an input, drained to None, and then      *)
(* given a second input with parse() and drained again.                    *)
(***************************************************************************)
MaxReuse == 2

ReuseInputs == UNION {[1..n -> DrainAlphabet] : n \in 0..MaxReuse}

\* Parser::parse: only the lexer is replaced
ParserParse(p, tokens) == [p EXCEPT !.lexer = tokens]

\* parser.parse(src) on the new parser
Parse_new ==
    /\ pc = "new"
    /\ \E tokens \in ReuseInputs :
          /\ src' = tokens
          /\ parser' = ParserParse(parser, tokens)
    /\ pc' = "next"
    /\ UNCHANGED <<panicked, prior, delivered, last>>
    /\ UNCHANGED treeVars

\* parser.parse(src) on the parser that has returned None for its first
\* input; the consumer collects the events of the new input
Parse_again ==
    /\ pc = "done"
    /\ ~panicked
    /\ prior = <<>>
    /\ \E tokens \in ReuseInputs :
          /\ src' = tokens
          /\ parser' = ParserParse(parser, tokens)
          /\ last' = [op |-> "none", first |-> NoToken,
                      pre |-> ParserParse(parser, tokens)]
    /\ prior' = Append(prior, src)
    /\ delivered' = <<>>
    /\ pc' = "next"
    /\ UNCHANGED panicked
    /\ UNCHANGED treeVars

NextReuse ==
    \/ Parse_new
    \/ Parse_again
    \/ Next_parse
    \/ Next_return

SpecReuse == InitDrain /\ [][NextReuse]_vars

(***************************************************************************)
(* SpecTree: the specification.                                            *)
(***************************************************************************)
InlineOff ==
    /\ src = <<>>
    /\ prior = <<>>
    /\ parser = Parser_new(<<>>)
    /\ pc = "off"
    /\ delivered = <<>>
    /\ last = [op |-> "none", first |-> NoToken, pre |-> Parser_new(<<>>)]

InitTree ==
    /\ builder = Builder_new
    /\ calls = <<>>
    /\ tree = NoTree
    /\ taken = NoTree
    /\ split = NoSplit
    /\ yielded = <<>>
    /\ tyielded = <<>>
    /\ tphase = "build"
    /\ tdone = <<FALSE, FALSE>>
    /\ obs = NoObs
    /\ panicked = FALSE
    /\ InlineOff

NextTree ==
    \/ Enter
    \/ Atom
    \/ Inline
    \/ Exit
    \/ ExitUnbalanced
    \/ Finish
    \/ FinishOpen
    \/ Next_tree
    \/ TakeBranch
    \/ Next_taken
    \/ TakeInlines
    \/ CountChildrenCall
    \/ LinearContainersCall

SpecTree == InitTree /\ [][NextTree]_vars

(***************************************************************************)
(* Reference readings used by the claims about the tree engine.            *)
(***************************************************************************)
\* The events a call sequence stands for: one per enter/atom/inline call,
\* and for each exit the Exit of the innermost container still open.
RECURSIVE EventsOfCalls(_, _)
EventsOfCalls(cs, open) ==
    IF cs = <<>> THEN <<>>
    ELSE LET c == Head(cs)
         IN  CASE c.op = "enter" ->
                    <<TEvent("Enter", c.tag, c.span)>>
                        \o EventsOfCalls(Tail(cs), Append(open, c))
               [] c.op = "atom" ->
                    <<TEvent("Atom", c.tag, c.span)>> \o EventsOfCalls(Tail(cs), open)
               [] c.op = "inline" ->
                    <<TEvent("Inline", "-", c.span)>> \o EventsOfCalls(Tail(cs), open)
               [] c.op = "exit" ->
                    IF open = <<>> THEN EventsOfCalls(Tail(cs), open)
                    ELSE <<TEvent("Exit", Last(open).tag, Last(open).span)>>
                             \o EventsOfCalls(Tail(cs), Front(open))
               [] OTHER -> EventsOfCalls(Tail(cs), open)

\* number of containers open after the calls cs, -1 if some exit had none to close
RECURSIVE OpenAfter(_, _)
OpenAfter(cs, n) ==
    IF cs = <<>> THEN n
    ELSE IF Head(cs).op = "enter" THEN OpenAfter(Tail(cs), n + 1)
    ELSE IF Head(cs).op = "exit"
         THEN IF n = 0 THEN -1 ELSE OpenAfter(Tail(cs), n - 1)
    ELSE OpenAfter(Tail(cs), n)

Balanced(cs) == OpenAfter(cs, 0) = 0

\* the events next() yields from cursor t until it returns None
RECURSIVE Drain(_)
Drain(t) ==
    LET r == TreeNext(t)
    IN  IF r.ev = NoEvent THEN <<>> ELSE <<r.ev>> \o Drain(r.t)

BothDrained ==
    tphase = "walk" /\ tdone[1] /\ (taken # NoTree => tdone[2]) /\ ~obs.inl

\* C1: for every balanced sequence of Builder calls (containers without
\* children included), draining the Tree finish() returned yields exactly the
\* events of the calls, in call order, with the spans given at the calls.
C1_RoundTrip ==
    (tphase = "walk" /\ tdone[1] /\ taken = NoTree /\ ~obs.inl /\ Balanced(calls))
        => yielded = EventsOfCalls(calls, <<>>)

\* what tree.next() yielded after take_branch() was called
AfterSplit == SubSeq(yielded, split.at + 1, Len(yielded))

\* C2: after take_branch, draining the returned cursor and the original one
\* yields together what draining the original alone would have yielded.
C2_LosslessPartition ==
    (BothDrained /\ taken # NoTree)
        => tyielded \o AfterSplit = Drain(split.t)


\* the Exit of the innermost container the cursor t is inside of
EnclosingExit(t) ==
    LET block == t.nodes[Last(t.branch)]
    IN  TEvent("Exit", block.tag, block.span)

\* C2 (amended): the returned cursor yields the rest of the current level,
\* the original cursor continues after the enclosing container, and the two
\* together are the unsplit drain with exactly one event left out, the Exit
\* of the innermost enclosing container; with no enclosing container
\* nothing is left out.  Nothing is duplicated or reordered.
C2_PartitionButEnclosingExit ==
    (BothDrained /\ taken # NoTree)
        => Drain(split.t) =
              IF split.t.branch = <<>>
              THEN tyielded \o AfterSplit
              ELSE tyielded \o <<EnclosingExit(split.t)>> \o AfterSplit

\* take_branch was called inside a container with siblings still to come on
\* both sides of the split
C2_Witness ==
    /\ BothDrained
    /\ taken # NoTree
    /\ split.t.branch # <<>>
    /\ tyielded # <<>>
    /\ AfterSplit # <<>>

(***************************************************************************)
(* Claims about the inline resolver.                                       *)
(***************************************************************************)
RECURSIVE SumLen(_)
SumLen(toks) == IF toks = <<>> THEN 0 ELSE Head(toks).len + SumLen(Tail(toks))

IsVerbatimNode(ev) ==
    ev.kind = "Node" /\ ev.tag \in {"Verbatim", "InlineMath", "DisplayMath"}

\* the span of the token a parse step started with
FirstSpan == <<last.pre.span[2], last.pre.span[2] + last.first.len>>

\* C3: the spans of the delivered events tile the input: the first starts at
\* 0, each starts where the previous ended, the last ends at the input length.
C3_SpansTile ==
    (pc = "done" /\ delivered # <<>>)
        => /\ delivered[1].span[1] = 0
           /\ \A i \in 1..(Len(delivered) - 1) :
                  delivered[i + 1].span[1] = delivered[i].span[2]
           /\ Last(delivered).span[2] = SumLen(src)

\* C3 (amended): the spans, in order, never overlap and stay within the
\* input, and leave a gap only at the delimiter runs of a Verbatim,
\* InlineMath or DisplayMath node: next to any other pair of events, and at
\* both ends of the input, they tile exactly.
C3_SpansTileButDelimiters ==
    (pc = "done" /\ delivered # <<>>)
        => /\ delivered[1].span[1] >= 0
           /\ IsVerbatimNode(delivered[1]) \/ delivered[1].span[1] = 0
           /\ \A i \in 1..Len(delivered) : delivered[i].span[1] <= delivered[i].span[2]
           /\ \A i \in 1..(Len(delivered) - 1) :
                  /\ delivered[i + 1].span[1] >= delivered[i].span[2]
                  /\ \/ IsVerbatimNode(delivered[i])
                     \/ IsVerbatimNode(delivered[i + 1])
                     \/ delivered[i + 1].span[1] = delivered[i].span[2]
           /\ Last(delivered).span[2] <= SumLen(src)
           /\ IsVerbatimNode(Last(delivered)) \/ Last(delivered).span[2] = SumLen(src)

\* an input whose events include a closed verbatim node between two others
C3_Witness ==
    /\ pc = "done"
    /\ \E i \in 2..(Len(delivered) - 1) :
          /\ IsVerbatimNode(delivered[i])
          /\ delivered[i].span[1] > delivered[i - 1].span[2]
          /\ delivered[i + 1].span[1] > delivered[i].span[2]

\* Matching of an event stream: an Exit(c) is matched with the nearest
\* earlier Enter(c) not yet matched or passed over.  ok is FALSE when some
\* Exit has no Enter(c) to match, matches an Enter that is Unclosed, or passes
\* over a Closed Enter; open is the Enters left unmatched.
RECURSIVE Matching(_, _)
Matching(evs, stack) ==
    IF evs = <<>> THEN [ok |-> TRUE, open |-> stack]
    ELSE LET ev == Head(evs)
         IN  CASE ev.kind = "Enter" -> Matching(Tail(evs), Append(stack, ev))
               [] ev.kind = "Exit" ->
                    LET hits == {i \in 1..Len(stack) : stack[i].tag = ev.tag}
                        r == IF hits = {} THEN 0
                             ELSE CHOOSE i \in hits : \A j \in hits : j <= i
                    IN  IF r = 0 THEN [ok |-> FALSE, open |-> stack]
                        ELSE IF \/ stack[r].state # "Closed"
                                \/ \E j \in (r + 1)..Len(stack) : stack[j].state = "Closed"
                        THEN [ok |-> FALSE, open |-> stack]
                        ELSE Matching(Tail(evs), SubSeq(stack, 1, r - 1))
               [] OTHER -> Matching(Tail(evs), stack)

\* C4: every delivered Exit(c) is matched with exactly one earlier
\* Enter(c, Closed) at its nesting depth, LIFO; an Enter delivered Unclosed is
\* never matched, and once the input is drained no Closed Enter is left
\* without its Exit.
C4_ExitsMatchClosedEnters ==
    LET m == Matching(delivered, <<>>)
    IN  /\ m.ok
        /\ pc = "done" => \A i \in 1..Len(m.open) : m.open[i].state = "Unclosed"

C4_Witness ==
    /\ pc = "done"
    /\ \E i, j, k \in 1..Len(delivered) :
          /\ i < j /\ j < k
          /\ delivered[i].kind = "Enter" /\ delivered[i].state = "Closed"
          /\ delivered[j].kind = "Enter" /\ delivered[j].state = "Unclosed"
          /\ delivered[k].kind = "Exit" /\ delivered[k].tag = delivered[i].tag

\* C5: whenever next() returns an event, the opener stack is empty or the
\* token stream is exhausted, so no token can still change the state of an
\* Enter the consumer has seen.
C5_Buffering ==
    (last.op = "return" /\ delivered # <<>>)
        => (parser.openers = <<>> \/ parser.lexer = <<>>)

\* an Enter was held back over later tokens and released Closed while
\* tokens remain
C5_Witness ==
    /\ last.op = "return"
    /\ parser.lexer # <<>>
    /\ delivered # <<>>
    /\ Last(delivered).kind = "Enter"
    /\ Last(delivered).state = "Closed"
    /\ Len(parser.events) >= 2

\* the container and direction of the token a parse step started with
FirstContainer == ContainerOf(last.first)

\* the position in the opener stack, before the step, of the rightmost
\* opener of kind k (0 if none)
Rightmost(k) ==
    IF \E i \in 1..Len(last.pre.openers) : last.pre.openers[i].c = k
    THEN CHOOSE i \in 1..Len(last.pre.openers) :
            /\ last.pre.openers[i].c = k
            /\ \A j \in (i + 1)..Len(last.pre.openers) : last.pre.openers[j].c # k
    ELSE 0

\* C6: a Close token whose kind has no opener is emitted as Node(Str) and
\* leaves the opener stack unchanged.
C6_UnopenedCloseIsStr ==
    (/\ last.op = "parse"
     /\ FirstContainer[2] = "Close"
     /\ Rightmost(FirstContainer[1]) = 0)
        => /\ parser.events =
                Append(last.pre.events, IEvent("Node", "Str", "-", FirstSpan))
           /\ parser.openers = last.pre.openers

AtomOfToken(tok) ==
    CASE tok.kind = "Escape" -> "Escape"
      [] tok.kind = "Nbsp" -> "Nbsp"
      [] tok.kind = "Sym" /\ tok.arg = "Lt" -> "Lt"
      [] tok.kind = "Sym" /\ tok.arg = "Gt" -> "Gt"
      [] tok.kind = "Sym" /\ tok.arg = "Quote2" -> "Quote"
      [] OTHER -> "-"

\* C7: a token of kind Escape, Nbsp, Sym(Lt), Sym(Gt) or Sym(Quote2) yields
\* exactly one Atom event (Escape, Nbsp, Lt, Gt, Quote) with the token's
\* span, whatever the opener stack holds.
C7_AtomTokens ==
    (last.op = "parse" /\ AtomOfToken(last.first) # "-")
        => /\ parser.events =
                Append(last.pre.events,
                       IEvent("Atom", AtomOfToken(last.first), "-", FirstSpan))
           /\ parser.openers = last.pre.openers

\* C8: a Close or Both token whose kind k is in the opener stack closes the
\* rightmost opener of kind k: its buffered Enter becomes Closed and one
\* Exit(k) with the token's span is emitted; a Both token whose kind is not
\* in the stack pushes an opener and emits Enter(k, Unclosed).
C8_LifoByKind ==
    (last.op = "parse" /\ FirstContainer[2] \in {"Close", "Both"})
        => LET k == FirstContainer[1]
               o == Rightmost(k)
           IN  IF o # 0
               THEN LET i == last.pre.openers[o].e + 1
                    IN  /\ i \in DOMAIN last.pre.events
                        /\ last.pre.events[i].kind = "Enter"
                        /\ last.pre.events[i].tag = k
                        /\ last.pre.events[i].state = "Unclosed"
                        /\ parser.events =
                             Append([last.pre.events EXCEPT ![i].state = "Closed"],
                                    IEvent("Exit", k, "-", FirstSpan))
                        /\ parser.openers = SubSeq(last.pre.openers, 1, o - 1)
               ELSE FirstContainer[2] = "Both"
                       => /\ parser.events =
                               Append(last.pre.events,
                                      IEvent("Enter", k, "Unclosed", FirstSpan))
                          /\ parser.openers =
                               Append(last.pre.openers,
                                      [c |-> k, e |-> Len(last.pre.events)])

\* a closer reached past openers of other kinds pushed after its own
C8_Witness ==
    /\ last.op = "parse"
    /\ FirstContainer[2] \in {"Close", "Both"}
    /\ Rightmost(FirstContainer[1]) # 0
    /\ Rightmost(FirstContainer[1]) < Len(last.pre.openers)
    /\ Last(parser.events).kind = "Exit"

\* the buffered Enters no opener points at any more (closed or abandoned)
Unreferenced(p) ==
    {i \in DOMAIN p.events :
        /\ p.events[i].kind = "Enter"
        /\ \A j \in 1..Len(p.openers) : p.openers[j].e + 1 # i}

\* C9: when a closer matches the opener at position o, every opener pushed
\* after o leaves the stack with its Enter still Unclosed, and no later token
\* changes an Enter that no opener points at: an abandoned Enter stays
\* Unclosed and the stream matching gives it no Exit.
C9_AbandonedStayUnclosed ==
    /\ (/\ last.op = "parse"
        /\ FirstContainer[2] \in {"Close", "Both"}
        /\ Rightmost(FirstContainer[1]) # 0)
          => LET o == Rightmost(FirstContainer[1])
             IN  /\ parser.openers = SubSeq(last.pre.openers, 1, o - 1)
                 /\ \A j \in (o + 1)..Len(last.pre.openers) :
                       LET i == last.pre.openers[j].e + 1
                       IN  /\ parser.events[i].kind = "Enter"
                           /\ parser.events[i].state = "Unclosed"
                           /\ i \in Unreferenced(parser)
    /\ last.op = "parse"
          => \A i \in Unreferenced(last.pre) : parser.events[i] = last.pre.events[i]
    /\ Matching(delivered \o parser.events, <<>>).ok

\* a token of the kind of an abandoned Enter arrives after the Enter was
\* abandoned
C9_Witness ==
    /\ last.op = "parse"
    /\ FirstContainer[2] \in {"Close", "Both"}
    /\ \E i \in Unreferenced(last.pre) :
          /\ last.pre.events[i].state = "Unclosed"
          /\ last.pre.events[i].tag = FirstContainer[1]

\* the position in toks of the first backtick run of length n, Len(toks) + 1
\* if there is none
FirstRun(toks, n) ==
    IF \E i \in 1..Len(toks) : IsBacktick(toks[i]) /\ toks[i].len = n
    THEN CHOOSE i \in 1..Len(toks) :
            /\ IsBacktick(toks[i]) /\ toks[i].len = n
            /\ \A j \in 1..(i - 1) : ~(IsBacktick(toks[j]) /\ toks[j].len = n)
    ELSE Len(toks) + 1

\* C10: after an opening backtick run of length n every token up to and
\* including the first backtick run of length n (or up to the end of input)
\* is consumed without an event of its own and without touching the opener
\* stack; runs of another length are content; one Node is emitted whose span
\* is the content, without the opening and closing runs.
C10_VerbatimRuns ==
    (last.op = "parse" /\ IsBacktick(last.first))
        => LET rest == Tail(last.pre.lexer)
               q == FirstRun(rest, last.first.len)
               start == FirstSpan[2]
           IN  /\ parser.lexer = SubSeq(rest, q + 1, Len(rest))
               /\ parser.events =
                    Append(last.pre.events,
                           IEvent("Node", "Verbatim", "-",
                                  <<start, start + SumLen(SubSeq(rest, 1, q - 1))>>))
               /\ parser.openers = last.pre.openers

\* a verbatim span that holds a backtick run of another length and is closed
C10_Witness ==
    /\ last.op = "parse"
    /\ IsBacktick(last.first)
    /\ LET rest == Tail(last.pre.lexer)
           q == FirstRun(rest, last.first.len)
       IN  /\ q <= Len(rest)
           /\ \E j \in 1..(q - 1) : IsBacktick(rest[j])

IsDollar(tok) == tok.kind = "Seq" /\ tok.arg = "Dollar"

\* C11: a dollar run of length 1 (2) immediately followed by a backtick run
\* yields one InlineMath (DisplayMath) node whose content ends at the first
\* backtick run as long as the opening backtick run, or at the end of input;
\* any other dollar run starts no math node, consumes no further token and is
\* emitted as Node(Str).
C11_MathSelection ==
    (last.op = "parse" /\ IsDollar(last.first))
        => LET rest == Tail(last.pre.lexer)
               math == last.first.len \in {1, 2} /\ rest # <<>> /\ IsBacktick(rest[1])
           IN  IF math
               THEN LET body == Tail(rest)
                        q == FirstRun(body, rest[1].len)
                        start == FirstSpan[2] + rest[1].len
                    IN  /\ parser.lexer = SubSeq(body, q + 1, Len(body))
                        /\ parser.events =
                             Append(last.pre.events,
                                    IEvent("Node",
                                           IF last.first.len = 1 THEN "InlineMath"
                                           ELSE "DisplayMath",
                                           "-",
                                           <<start,
                                             start + SumLen(SubSeq(body, 1, q - 1))>>))
                        /\ parser.openers = last.pre.openers
               ELSE /\ parser.lexer = rest
                    /\ parser.events =
                         Append(last.pre.events, IEvent("Node", "Str", "-", FirstSpan))
                    /\ parser.openers = last.pre.openers

\* a display math node closed by a run as long as its opening backtick run,
\* after a run of another length inside it
C11_Witness ==
    /\ last.op = "parse"
    /\ IsDollar(last.first)
    /\ Last(parser.events).tag = "DisplayMath"
    /\ LET body == Tail(Tail(last.pre.lexer))
           q == FirstRun(body, last.pre.lexer[2].len)
       IN  /\ q <= Len(body)
           /\ \E j \in 1..(q - 1) : IsBacktick(body[j])

\* C12: parsing a token sequence with a fresh parser never panics and never
\* indexes the event buffer out of range: while tokens remain, every opener
\* on the stack refers to a buffered Enter event.
C12_NoPanic ==
    pc # "off"
        => /\ ~panicked
           /\ parser.lexer # <<>>
                 => \A i \in 1..Len(parser.openers) :
                       /\ parser.openers[i].e \in 0..(Len(parser.events) - 1)
                       /\ parser.events[parser.openers[i].e + 1].kind = "Enter"

\* a closer has patched an Enter that is not the oldest buffered event, below
\* an opener that stays on the stack
C12_Witness ==
    /\ last.op = "parse"
    /\ ~panicked
    /\ Last(parser.events).kind = "Exit"
    /\ parser.openers # <<>>
    /\ Rightmost(FirstContainer[1]) >= 2
    /\ last.pre.openers[Rightmost(FirstContainer[1])].e >= 2

\* the events produced so far: those returned, then those still buffered
Produced == delivered \o parser.events

\* the kind, tag and span of an event (its state may still be patched while
\* it is buffered)
Shape(ev) == <<ev.kind, ev.tag, ev.span>>

\* C13: draining the parser returns every event produced, in production
\* order, and then None after finitely many calls; Enter events whose openers
\* are outstanding at the end of input are returned too.
C13_DrainsInOrder ==
    /\ <>(pc = "done")
    /\ [](pc = "done" => parser.events = <<>>)
    /\ [][/\ Len(Produced') >= Len(Produced)
          /\ \A i \in 1..Len(Produced) : Shape(Produced'[i]) = Shape(Produced[i])
          /\ Len(delivered') >= Len(delivered)
          /\ \A i \in 1..Len(delivered) : delivered'[i] = delivered[i]]_vars

\* None has been returned with an opener outstanding, after its Enter was
\* returned unclosed and followed by a later event
C13_Witness ==
    /\ pc = "done"
    /\ parser.openers # <<>>
    /\ Len(delivered) >= 3
    /\ delivered[1].kind = "Enter"
    /\ delivered[1].state = "Unclosed"
    /\ \A i \in 1..Len(delivered) : delivered[i].kind # "Exit"

(***************************************************************************)
(* Claims about the cursor and the builder.                                *)
(***************************************************************************)
\* the event next() returns when its head is node i
EventOf(n) ==
    TEvent(CASE n.kind = "Container" -> "Enter"
             [] n.kind = "Atom" -> "Atom"
             [] n.kind = "Inline" -> "Inline"
             [] OTHER -> "Root",
           n.tag, n.span)

\* depth-first, pre-order events of the nodes linked from h: a node, then
\* its children, then its Exit if it is a container, then its next sibling
RECURSIVE Walk(_, _)
Walk(nodes, h) ==
    IF h = None THEN <<>>
    ELSE LET n == nodes[h]
         IN  IF n.kind = "Container"
             THEN <<EventOf(n)>> \o Walk(nodes, n.child)
                      \o <<TEvent("Exit", n.tag, n.span)>> \o Walk(nodes, n.next)
             ELSE <<EventOf(n)>> \o Walk(nodes, n.next)

IsPrefix(s, t) == Len(s) <= Len(t) /\ s = SubSeq(t, 1, Len(s))

\* take_branch() was called right after tree.next() returned an Enter
SplitAfterEnter ==
    /\ split # NoSplit
    /\ split.at >= 1
    /\ yielded[split.at].kind = "Enter"

\* the container whose Enter was yielded last before take_branch()
SplitContainer == split.t.nodes[Last(split.t.branch)]

\* C14: take_branch called right after Enter(c): the returned cursor yields
\* exactly the events of c's children and their descendants, depth first,
\* and then ends; the original cursor's next event is that of the sibling
\* following c, and it yields none of the returned cursor's events.
C14_TakeBranchAfterEnter ==
    SplitAfterEnter
        => LET sub == Walk(split.t.nodes, SplitContainer.child)
           IN  /\ IsPrefix(tyielded, sub)
               /\ tdone[2] => tyielded = sub
               /\ (AfterSplit # <<>> /\ SplitContainer.next # None)
                     => AfterSplit[1] = EventOf(split.t.nodes[SplitContainer.next])
               /\ (tdone[1] /\ SplitContainer.next # None) => AfterSplit # <<>>
               /\ \A i \in 1..Len(AfterSplit), j \in 1..Len(sub) :
                     AfterSplit[i] # sub[j]

\* both cursors are drained, the container had a child with a descendant,
\* and a sibling followed the container
C14_Witness ==
    /\ SplitAfterEnter
    /\ BothDrained
    /\ Len(tyielded) >= 3
    /\ tyielded[1].kind = "Enter"
    /\ SplitContainer.next # None
    /\ AfterSplit # <<>>

\* the nodes of the level from h on, in sibling order
RECURSIVE Level(_, _)
Level(nodes, h) == IF h = None THEN <<>> ELSE <<h>> \o Level(nodes, nodes[h].next)

\* the nodes on the level of the cursor when take_inlines was called
ObsLevel == Level(obs.pre.nodes, obs.pre.head)

\* how many nodes at the start of ObsLevel are Inline
ObsRun ==
    CHOOSE k \in 0..Len(ObsLevel) :
        /\ \A i \in 1..k : obs.pre.nodes[ObsLevel[i]].kind = "Inline"
        /\ k < Len(ObsLevel) => obs.pre.nodes[ObsLevel[k + 1]].kind # "Inline"

SpansOf(nodes, is) == [i \in 1..Len(is) |-> nodes[is[i]].span]

\* take_inlines was called with an Inline node at the head
InlinesAtInline ==
    /\ obs.op = "take_inlines"
    /\ obs.pre.head # None
    /\ obs.pre.nodes[obs.pre.head].kind = "Inline"

\* C15: take_inlines (its iterator consumed to the end) returns exactly the
\* spans of the maximal run of Inline nodes from the head and consumes only
\* that run: the node after the run is the next one the cursor visits.
C15_MaximalRunOnly ==
    (InlinesAtInline /\ obs.pulls = MaxNodes + 1)
        => /\ ~panicked
           /\ obs.spans = SpansOf(obs.pre.nodes, SubSeq(ObsLevel, 1, ObsRun))
           /\ tree = [obs.pre EXCEPT
                        !.head = IF ObsRun < Len(ObsLevel) THEN ObsLevel[ObsRun + 1]
                                 ELSE None]

\* C15 (amended): take_inlines clears the head, so the cursor is at the end
\* of the level whatever the level holds; the iterator yields the spans of
\* the nodes from the old head on, one per pull, and panics when it is
\* pulled onto a node that is not Inline.
C15_RestOfLevel ==
    InlinesAtInline
        => LET pulled == IF obs.pulls < Len(ObsLevel) THEN obs.pulls
                         ELSE Len(ObsLevel)
           IN  /\ tree = [obs.pre EXCEPT !.head = None]
               /\ IF pulled <= ObsRun
                  THEN /\ ~panicked
                       /\ obs.spans = SpansOf(obs.pre.nodes, SubSeq(ObsLevel, 1, pulled))
                  ELSE /\ panicked
                       /\ obs.spans = SpansOf(obs.pre.nodes, SubSeq(ObsLevel, 1, ObsRun))

\* the iterator was pulled past a run of two Inline nodes onto a node of
\* another kind, inside a container
C15_Witness ==
    /\ InlinesAtInline
    /\ obs.pre.branch # <<>>
    /\ ObsRun = 2
    /\ ObsRun < Len(ObsLevel)
    /\ obs.pulls > ObsRun
    /\ panicked

\* take_inlines was called with a head that is not an Inline node
InlinesAtOther ==
    /\ obs.op = "take_inlines"
    /\ obs.pre.head # None => obs.pre.nodes[obs.pre.head].kind # "Inline"

Earlier == Front(calls)

\* C17: exit() with no container open aborts, finish() with a container
\* still open aborts, and a Tree is produced in neither case.
C17_MisuseAborts ==
    /\ (calls # <<>> /\ Last(calls).op = "exit" /\ OpenAfter(Earlier, 0) = 0)
          => panicked
    /\ (calls # <<>> /\ Last(calls).op = "finish" /\ OpenAfter(Earlier, 0) > 0)
          => (panicked /\ tphase = "build")
    /\ tphase = "walk" => Balanced(Earlier)

\* evs read against a stack of open Enter events: whether every Exit closes
\* the most recent open Enter with its container and span, and what is
\* left open
RECURSIVE Nesting(_, _)
Nesting(evs, open) ==
    IF evs = <<>> THEN [ok |-> TRUE, open |-> open]
    ELSE LET ev == Head(evs)
         IN  CASE ev.kind = "Enter" -> Nesting(Tail(evs), Append(open, ev))
               [] ev.kind = "Exit" ->
                    IF /\ open # <<>>
                       /\ Last(open).tag = ev.tag
                       /\ Last(open).span = ev.span
                    THEN Nesting(Tail(evs), Front(open))
                    ELSE [ok |-> FALSE, open |-> open]
               [] ev.kind \in {"Atom", "Inline"} -> Nesting(Tail(evs), open)
               [] OTHER -> [ok |-> FALSE, open |-> open]

\* only tree.next() has moved the cursor finish() returned
OnlyNext == tphase = "walk" /\ split = NoSplit /\ ~obs.inl

\* C18: draining the cursor of a tree returned by finish() yields the
\* depth-first stream of its nodes: Enter before the descendants, the Exit
\* with the same container and span after them, closing the most recent
\* open Enter; Root is not yielded and next() hits no panic or unreachable.
C18_WellNestedDrain ==
    /\ OnlyNext
          => /\ ~panicked
             /\ Nesting(yielded, <<>>).ok
             /\ IsPrefix(yielded, Walk(tree.nodes, tree.nodes[NodeIndex_root].next))
             /\ tdone[1]
                   => /\ yielded = Walk(tree.nodes, tree.nodes[NodeIndex_root].next)
                      /\ Nesting(yielded, <<>>).open = <<>>
    /\ (tphase = "walk" /\ obs.op # "take_inlines") => ~panicked

\* a drained tree with a container inside a container, and a leaf between
\* the Exit of the inner one and the Exit of the outer one
C18_Witness ==
    /\ OnlyNext
    /\ tdone[1]
    /\ \E i \in 1..(Len(yielded) - 2) :
          /\ yielded[i].kind = "Exit"
          /\ yielded[i + 1].kind \in {"Atom", "Inline"}
          /\ yielded[i + 2].kind = "Exit"

\* how many of the events evs are an Enter, Atom or Inline outside every
\* container entered within evs
RECURSIVE TopLevelCount(_, _)
TopLevelCount(evs, depth) ==
    IF evs = <<>> THEN 0
    ELSE LET ev == Head(evs)
         IN  CASE ev.kind = "Enter" ->
                    (IF depth = 0 THEN 1 ELSE 0) + TopLevelCount(Tail(evs), depth + 1)
               [] ev.kind = "Exit" -> TopLevelCount(Tail(evs), depth - 1)
               [] OTHER ->
                    (IF depth = 0 THEN 1 ELSE 0) + TopLevelCount(Tail(evs), depth)

\* C19: count_children() is the number of nodes on the current level from
\* the head on, descendants not counted, which is the number of Enter, Atom
\* and Inline events at depth 0 in the drain of a cursor forked at the head.
C19_CountChildren ==
    obs.op = "count_children"
        => /\ obs.count = Len(ObsLevel)
           /\ obs.count =
                 TopLevelCount(Drain(WithHead(obs.pre, obs.pre.head)), 0)

\* counted inside a container, on a level of a leaf and a container that
\* has a child of its own
C19_Witness ==
    /\ obs.op = "count_children"
    /\ obs.pre.branch # <<>>
    /\ obs.count >= 2
    /\ \E i \in 1..Len(ObsLevel) : obs.pre.nodes[ObsLevel[i]].child # None

\* the container nodes of the level, in sibling order
ObsContainers ==
    LET IsContainer(i) == obs.pre.nodes[i].kind = "Container"
    IN  SelectSeq(ObsLevel, IsContainer)

\* C20: linear_containers() yields, in sibling order, exactly the containers
\* on the current level from the head on, each with a cursor whose drain is
\* the events nested inside that container and no more; the original cursor
\* is unchanged.
C20_LinearContainers ==
    obs.op = "linear_containers"
        => /\ Len(obs.conts) = Len(ObsContainers)
           /\ \A i \in 1..Len(ObsContainers) :
                 LET n == obs.pre.nodes[ObsContainers[i]]
                 IN  /\ obs.conts[i][1] = n.tag
                     /\ Drain(obs.conts[i][2]) = Walk(obs.pre.nodes, n.child)
           /\ tree = obs.pre

\* a level that starts with a leaf and holds a container with a child and
\* with a later sibling
C20_Witness ==
    /\ obs.op = "linear_containers"
    /\ Len(ObsLevel) >= 3
    /\ obs.pre.nodes[ObsLevel[1]].kind # "Container"
    /\ \E i \in 1..Len(ObsContainers) :
          /\ obs.pre.nodes[ObsContainers[i]].child # None
          /\ obs.pre.nodes[ObsContainers[i]].next # None

\* the links into node j: <<owner, field>> for every child or next link
\* whose target is j
LinksInto(nodes, j) ==
    {l \in (1..Len(nodes)) \X {"child", "next"} :
        IF l[2] = "child" THEN nodes[l[1]].child = j ELSE nodes[l[1]].next = j}

\* C21: after Builder operations that did not abort, Root is the target of
\* no link, every other node is the target of exactly one child or next
\* link, and every link points to a larger index than its owner's.
C21_ArenaForest ==
    (tphase = "build" /\ ~panicked)
        => \A j \in 1..Len(builder.nodes) :
              LET into == LinksInto(builder.nodes, j)
              IN  /\ j = NodeIndex_root => into = {}
                  /\ j # NodeIndex_root => Cardinality(into) = 1
                  /\ \A l \in into : l[1] < j

\* four nodes were added, one of them after the exit of a container that
\* has a child, and one inside a container inside a container
C21_Witness ==
    /\ tphase = "build"
    /\ ~panicked
    /\ Len(builder.nodes) = 5
    /\ \E i, j \in 1..Len(builder.nodes) :
          /\ builder.nodes[i].kind = "Container"
          /\ builder.nodes[i].child = j
          /\ builder.nodes[j].kind = "Container"
          /\ builder.nodes[j].child # None
          /\ builder.nodes[j].next # None

\* C22: for every properly nested sequence of enter/atom/inline/exit calls,
\* childless containers and nodes appended after them included, every call
\* returns normally, and so does finish() once all containers are closed.
C22_NoAbortOnProperUse ==
    (/\ tphase = "build"
     /\ OpenAfter(calls, 0) >= 0
     /\ (calls # <<>> /\ Last(calls).op = "finish") => OpenAfter(Earlier, 0) = 0)
        => ~panicked

(***************************************************************************)
(* Claims about the reuse of a Parser.                                     *)
(***************************************************************************)
\* one call of next() on parser p, run to its return: the parser after the
\* call and the event returned (NoIEvent for None)
RECURSIVE NextCall(_)
NextCall(p) ==
    IF KeepParsing(p)
    THEN LET r == ParseEvent(p)
         IN  IF r.ev = NoIEvent THEN PopFront(r.p)
             ELSE NextCall([r.p EXCEPT !.events = Append(r.p.events, r.ev)])
    ELSE PopFront(p)

\* the events a consumer collects from parser p
RECURSIVE Collect(_)
Collect(p) ==
    LET r == NextCall(p)
    IN  IF r.ev = NoIEvent THEN <<>> ELSE <<r.ev>> \o Collect(r.p)

\* C23: parse(src) on a Parser already used on an earlier input and drained
\* starts from a clean state: the events produced for src are those a fresh
\* Parser produces for src, and no call aborts.
C23_ReuseIsClean ==
    prior # <<>>
        => /\ ~panicked
           /\ pc = "done" => delivered = Collect(Parser_new(src))

====
